---- MODULE Spec2Model ----
(***************************************************************************)
(* A model of authlib.integrations.starlette_client.remote_app.RemoteApp:  *)
(* one shared RemoteApp (static configuration, server_metadata_url and the *)
(* server_metadata cache) used by several asyncio flows.  Every action     *)
(* runs one coroutine from the point where it is resumed to its next       *)
(* suspension (an awaited network call or an awaited async hook) or to its *)
(* return or raise: between two suspensions asyncio runs nothing else.     *)
(***************************************************************************)
EXTENDS Naturals, Sequences, FiniteSets, TLC

VARIABLES cfg,                  \* the static configuration of the RemoteApp
          remote,               \* what the provider serves: discovery document, JWK set
          server_metadata_url,  \* self._server_metadata_url
          server_metadata,      \* self.server_metadata
          flow,                 \* per flow: the coroutine's position, arguments, locals, outcome
          hist                  \* counters: operations started, discovery fetches issued / succeeded

vars == <<cfg, remote, server_metadata_url, server_metadata, flow, hist>>

\* ------------------------------------------------------------------ bounds
NFlows == 2
MaxOps == 3

Flows == 1..NFlows

\* ------------------------------------------------------------- python values
None == "None"

\* A dict is a function whose DOMAIN is the set of its keys.
EmptyDict == [k \in {} |-> None]

\* d.get(k): the value, or None for a missing key
Get(d, k) == IF k \in DOMAIN d THEN d[k] ELSE None

\* a.update(b): the keys of b are written over a, the other keys of a stay
Update(a, b) == [k \in DOMAIN a \cup DOMAIN b |-> IF k \in DOMAIN b THEN b[k] ELSE a[k]]

\* d[k] = v
SetItem(d, k, v) == [x \in DOMAIN d \cup {k} |-> IF x = k THEN v ELSE d[x]]

Range(s) == {s[i] : i \in DOMAIN s}

\* ------------------------------------------------------------------------ urls
\* Strings are sequences of characters; Ch(s, i) is the i-th as a string.
Ch(s, i) == SubSeq(s, i, i)
Take(s, n) == SubSeq(s, 1, n)
Drop(s, n) == SubSeq(s, n + 1, Len(s))
Min(S) == CHOOSE i \in S : \A j \in S : i <= j
Max(S) == CHOOSE i \in S : \A j \in S : j <= i
MinOr(S, default) == IF S = {} THEN default ELSE Min(S)
MaxOr(S, default) == IF S = {} THEN default ELSE Max(S)

\* s.find(c, start) and s.rfind(c), counting from 1; 0 when c is not there
Find(s, c, start) == MinOr({i \in start..Len(s) : Ch(s, i) = c}, 0)
RFind(s, c) == MaxOr({i \in 1..Len(s) : Ch(s, i) = c}, 0)

\* url.startswith(prefix)
StartsWith(url, prefix) ==
    Len(url) >= Len(prefix) /\ Take(url, Len(prefix)) = prefix

\* line 149: url.startswith(('https://', 'http://'))
IsAbsolute(url) == StartsWith(url, "https://") \/ StartsWith(url, "http://")

UpperCase == "ABCDEFGHIJKLMNOPQRSTUVWXYZ"
LowerCase == "abcdefghijklmnopqrstuvwxyz"
\* urllib.parse.scheme_chars
scheme_chars == LowerCase \o UpperCase \o "0123456789+-."
InStr(c, chars) == \E i \in 1..Len(chars) : Ch(chars, i) = c

\* c.lower() for one character, i its place among the upper case letters
lower_char(c, i) == IF i = 0 THEN c ELSE Ch(LowerCase, i)

RECURSIVE lower(_)
\* s.lower()
lower(s) ==
    IF s = "" THEN ""
    ELSE lower_char(Ch(s, 1), Find(UpperCase, Ch(s, 1), 1)) \o lower(Drop(s, 1))

\* s.partition(c) without the separator, cut at place i (0: c is not in s)
cut_at(s, i) ==
    IF i = 0 THEN [head |-> s, tail |-> "", found |-> FALSE]
    ELSE [head |-> Take(s, i - 1), tail |-> Drop(s, i), found |-> TRUE]
cut(s, c) == cut_at(s, Find(s, c, 1))

RECURSIVE split(_, _)
RECURSIVE split_cut(_, _)
\* s.split(c): the pieces between the occurrences of c
split(s, c) == split_cut(cut(s, c), c)
split_cut(p, c) == IF p.found THEN <<p.head>> \o split(p.tail, c) ELSE <<p.head>>

RECURSIVE join(_, _)
\* c.join(parts)
join(parts, c) ==
    IF parts = << >> THEN ""
    ELSE IF Len(parts) = 1 THEN parts[1]
    ELSE parts[1] \o c \o join(Tail(parts), c)

\* urllib.parse.uses_relative, uses_netloc and uses_params
uses_relative == {"", "ftp", "http", "gopher", "nntp", "imap", "wais", "file", "https",
                  "shttp", "mms", "prospero", "rtsp", "rtsps", "rtspu", "sftp", "svn",
                  "svn+ssh", "ws", "wss"}
uses_netloc == {"", "ftp", "http", "gopher", "nntp", "telnet", "imap", "wais", "file",
                "mms", "https", "shttp", "snews", "prospero", "rtsp", "rtsps", "rtspu",
                "rsync", "svn", "svn+ssh", "sftp", "nfs", "git", "git+ssh", "ws", "wss"}
uses_params == {"", "ftp", "hdl", "prospero", "http", "imap", "https", "shttp", "rtsp",
                "rtsps", "rtspu", "sip", "sips", "mms", "sftp", "tel"}

\* urllib.parse._splitnetloc(url, 2): the netloc ends at the first of / ? #
splitnetloc_at(url, delim) ==
    [netloc |-> SubSeq(url, 3, delim - 1), url |-> Drop(url, delim - 1)]
splitnetloc(url) ==
    splitnetloc_at(url, MinOr({i \in 3..Len(url) : Ch(url, i) \in {"/", "?", "#"}},
                              Len(url) + 1))

\* urllib.parse.urlsplit(url, scheme) for a url with no blank, control or
\* bracket character in it, in the order of the code: the scheme up to the first
\* colon (a letter followed by scheme characters; it is lower-cased), the netloc
\* after //, the fragment after #, the query after ?
has_scheme(url, i) ==
    /\ i > 1
    /\ InStr(Ch(url, 1), LowerCase \o UpperCase)
    /\ \A j \in 1..(i - 1) : InStr(Ch(url, j), scheme_chars)
urlsplit_result(scheme, netloc, q, fragment) ==
    [scheme |-> scheme, netloc |-> netloc, path |-> q.head, query |-> q.tail,
     fragment |-> fragment]
urlsplit_query(scheme, netloc, h) ==
    urlsplit_result(scheme, netloc, cut(h.head, "?"), h.tail)
urlsplit_fragment(scheme, nl) == urlsplit_query(scheme, nl.netloc, cut(nl.url, "#"))
urlsplit_netloc(scheme, url) ==
    IF StartsWith(url, "//")
    THEN urlsplit_fragment(scheme, splitnetloc(url))
    ELSE urlsplit_fragment(scheme, [netloc |-> "", url |-> url])
urlsplit_scheme(url, scheme, i) ==
    IF has_scheme(url, i)
    THEN urlsplit_netloc(lower(Take(url, i - 1)), Drop(url, i))
    ELSE urlsplit_netloc(scheme, url)
urlsplit(url, scheme) == urlsplit_scheme(url, scheme, Find(url, ":", 1))

\* urllib.parse._splitparams(url): the params follow the first ; of the last
\* path segment
splitparams(url) ==
    cut_at(url, IF InStr("/", url) THEN Find(url, ";", RFind(url, "/"))
                ELSE Find(url, ";", 1))

\* urllib.parse.urlparse(url, scheme)
urlparse_result(r, p) ==
    [scheme |-> r.scheme, netloc |-> r.netloc, path |-> p.head, params |-> p.tail,
     query |-> r.query, fragment |-> r.fragment]
urlparse_params(r) ==
    IF r.scheme \in uses_params /\ InStr(";", r.path)
    THEN urlparse_result(r, splitparams(r.path))
    ELSE urlparse_result(r, cut_at(r.path, 0))
urlparse(url, scheme) == urlparse_params(urlsplit(url, scheme))

\* urllib.parse.urlunsplit
urlunsplit_netloc(scheme, netloc, path) ==
    IF netloc # "" \/ (scheme # "" /\ scheme \in uses_netloc /\ ~StartsWith(path, "//"))
    THEN "//" \o netloc \o (IF path # "" /\ ~StartsWith(path, "/") THEN "/" ELSE "")
              \o path
    ELSE path
urlunsplit(scheme, netloc, path, query, fragment) ==
    (IF scheme # "" THEN scheme \o ":" ELSE "")
        \o urlunsplit_netloc(scheme, netloc, path)
        \o (IF query # "" THEN "?" \o query ELSE "")
        \o (IF fragment # "" THEN "#" \o fragment ELSE "")

\* urllib.parse.urlunparse
urlunparse(scheme, netloc, path, params, query, fragment) ==
    urlunsplit(scheme, netloc, IF params # "" THEN path \o ";" \o params ELSE path,
               query, fragment)

\* filter(None, segments): the empty segments are dropped
NonEmpty(segments) == SelectSeq(segments, LAMBDA seg : seg # "")

\* base_parts of urljoin: the segments of the base path without the last one,
\* unless that is empty
base_parts(parts) ==
    IF parts[Len(parts)] # "" THEN SubSeq(parts, 1, Len(parts) - 1) ELSE parts

\* segments[1:-1] = filter(None, segments[1:-1])
filter_middle(segments) ==
    IF Len(segments) <= 2 THEN segments
    ELSE <<segments[1]>> \o NonEmpty(SubSeq(segments, 2, Len(segments) - 1))
             \o <<segments[Len(segments)]>>

\* the segments urljoin resolves: those of an absolute path as they are, those
\* of a relative path after the base's, the empty ones in between dropped
segments_of(bpath, path) ==
    IF StartsWith(path, "/") THEN split(path, "/")
    ELSE filter_middle(base_parts(split(bpath, "/")) \o split(path, "/"))

RECURSIVE resolve(_, _)
\* the loop of urljoin over the segments: ".." takes the last resolved segment
\* away (if there is one), "." is skipped, any other segment is appended
resolve(segments, resolved_path) ==
    IF segments = << >> THEN resolved_path
    ELSE resolve(Tail(segments),
                 IF Head(segments) = ".."
                 THEN SubSeq(resolved_path, 1, Len(resolved_path) - 1)
                 ELSE IF Head(segments) = "." THEN resolved_path
                 ELSE Append(resolved_path, Head(segments)))

\* resolved_path of urljoin: a last segment . or .. leaves a trailing slash
resolved_path_of(segments) ==
    IF segments[Len(segments)] \in {".", ".."}
    THEN Append(resolve(segments, << >>), "")
    ELSE resolve(segments, << >>)

\* '/'.join(resolved_path) or '/'
path_or_slash(path) == IF path = "" THEN "/" ELSE path

\* urljoin once base and url are parsed into b and u
urljoin_parsed(url, b, u) ==
    IF u.scheme # b.scheme \/ u.scheme \notin uses_relative THEN url
    ELSE IF u.scheme \in uses_netloc /\ u.netloc # ""
    THEN urlunparse(u.scheme, u.netloc, u.path, u.params, u.query, u.fragment)
    ELSE IF u.path = "" /\ u.params = ""
    THEN urlunparse(u.scheme, b.netloc, b.path, b.params,
                    IF u.query = "" THEN b.query ELSE u.query, u.fragment)
    ELSE urlunparse(u.scheme, b.netloc,
                    path_or_slash(join(resolved_path_of(segments_of(b.path, u.path)), "/")),
                    u.params, u.query, u.fragment)
urljoin_base(url, b) == urljoin_parsed(url, b, urlparse(url, b.scheme))

\* urlparse.urljoin(base, url), the function of urllib.parse, for strings with no
\* blank, control or bracket character in them
urljoin(base, url) ==
    IF base = "" THEN url
    ELSE IF url = "" THEN base
    ELSE urljoin_base(url, urlparse(base, ""))

\* --------------------------------------------------------------- flow records
NewFlow == [pc |-> "idle", op |-> "none", cont |-> "none", arg |-> EmptyDict,
            loc |-> EmptyDict, net |-> << >>, hook |-> 0, hookarg |-> None,
            res |-> "none", val |-> << >>, url0 |-> None, session |-> EmptyDict]

\* One network call as the transport sees it: which call, the url it goes to, the
\* bearer token attached (client.token), the OAuth1 credential and the parameters.
Call(label, url, token, cred, params) ==
    [call |-> label, url |-> url, token |-> token, cred |-> cred, params |-> params]

World == [url |-> server_metadata_url, md |-> server_metadata, hist |-> hist]

Raise(w, fr, err) == [w |-> w, fr |-> [fr EXCEPT !.pc = "done", !.res = err]]
\* a returned value v is kept as <<v>>, a returned None as << >>
Return(w, fr, v) == [w |-> w, fr |-> [fr EXCEPT !.pc = "done", !.res = "ok", !.val = <<v>>]]
ReturnNone(w, fr) == [w |-> w, fr |-> [fr EXCEPT !.pc = "done", !.res = "ok", !.val = << >>]]
\* await of a network call: the call is on the wire and the coroutine is suspended
Await(w, fr, c) == [w |-> w, fr |-> [fr EXCEPT !.pc = c.call, !.net = Append(@, c)]]

\* ------------------------------------------------------------------- request
\* lines 149-150: a url that does not start with https:// or http:// is joined
\* to api_base_url, if there is one (None and "" are both false)
api_url(url) ==
    IF cfg.api_base_url \notin {None, ""} /\ ~IsAbsolute(url)
    THEN urljoin(cfg.api_base_url, url)
    ELSE url

\* what a token hook answers when it does not return: its exception
HookError == "HookError"

\* lines 159-167, with the hook's answer or the explicit token in `token`: an
\* exception of the hook leaves request, no token raises, else client.token =
\* token and the call is made
send_with_token(w, fr, label, url, token) ==
    IF token = HookError
    THEN Raise(w, fr, HookError)
    ELSE IF token = None
    THEN Raise(w, fr, "MissingTokenError")
    ELSE Await(w, fr, Call(label, url, token, EmptyDict, EmptyDict))

\* A faulty request that consults the token hook even when the token is withheld.
request_hook_always(w, fr, label, url, token, withhold_token, req, hookret) ==
    IF token = None /\ cfg.fetch_token # "none"
    THEN send_with_token(w, [fr EXCEPT !.hook = @ + 1, !.hookarg = req], label, url, hookret)
    ELSE IF withhold_token THEN Await(w, fr, Call(label, url, None, EmptyDict, EmptyDict))
    ELSE send_with_token(w, fr, label, url, token)
\* A faulty request that prefers the hook's token to an explicit one.
request_hook_first(w, fr, label, url, token, withhold_token, req, hookret) ==
    IF withhold_token
    THEN Await(w, fr, Call(label, url, None, EmptyDict, EmptyDict))
    ELSE IF req # None /\ cfg.fetch_token = "sync"
    THEN send_with_token(w, [fr EXCEPT !.hook = @ + 1, !.hookarg = req], label, url, hookret)
    ELSE IF req # None /\ cfg.fetch_token = "async"
    THEN [w |-> w, fr |-> [fr EXCEPT !.pc = "hook", !.hook = @ + 1, !.hookarg = req,
                                    !.loc = [label |-> label, url |-> url]]]
    ELSE send_with_token(w, fr, label, url, token)
\* A faulty request that sends unauthenticated when no token is found.
request_send_without_token(w, fr, label, url, token, withhold_token, req, hookret) ==
    IF withhold_token
    THEN Await(w, fr, Call(label, url, None, EmptyDict, EmptyDict))
    ELSE IF token = None /\ req # None /\ cfg.fetch_token = "sync"
    THEN Await(w, [fr EXCEPT !.hook = @ + 1, !.hookarg = req],
               Call(label, url, hookret, EmptyDict, EmptyDict))
    ELSE IF token = None /\ req # None /\ cfg.fetch_token = "async"
    THEN [w |-> w, fr |-> [fr EXCEPT !.pc = "hook", !.hook = @ + 1, !.hookarg = req,
                                    !.loc = [label |-> label, url |-> url]]]
    ELSE Await(w, fr, Call(label, url, token, EmptyDict, EmptyDict))

\* RemoteApp.request(method, url, token=None, **kwargs), to its first suspension.
\* req is kwargs['request'], withhold_token is kwargs['withhold_token'], hookret is
\* what self._fetch_token(request) answers.
request(w, fr, label, url, token, withhold_token, req, hookret) ==
    LET u == api_url(url)
    IN  IF withhold_token
        THEN Await(w, fr, Call(label, u, None, EmptyDict, EmptyDict))
        ELSE IF token = None /\ req # None /\ cfg.fetch_token = "sync"
        THEN send_with_token(w, [fr EXCEPT !.hook = @ + 1, !.hookarg = req], label, u, hookret)
        ELSE IF token = None /\ req # None /\ cfg.fetch_token = "async"
        THEN [w |-> w, fr |-> [fr EXCEPT !.pc = "hook", !.hook = @ + 1, !.hookarg = req,
                                        !.loc = [label |-> label, url |-> u]]]
        ELSE send_with_token(w, fr, label, u, token)

\* line 159 resumed: token = await self._fetch_token(request), then lines 163-167
request_resume(w, fr, hookret) == send_with_token(w, fr, fr.loc.label, fr.loc.url, hookret)

\* _fetch_server_metadata(url): self.request('GET', url, withhold_token=True)
fetch_server_metadata(w, fr, label, url) == request(w, fr, label, url, None, TRUE, None, None)

\* ------------------------------------------------------- _load_server_metadata
RECURSIVE after_load(_, _)

\* A faulty resolver that hands out the cache without waiting for the document.
load_server_metadata_no_wait(w, fr, cont) == after_load(w, [fr EXCEPT !.cont = cont])

\* lines 23-24: with a discovery url set the document is requested and the
\* coroutine is suspended in the fetch; without one the cache is returned at once.
load_server_metadata(w, fr, cont) ==
    IF w.url # None
    THEN LET r == fetch_server_metadata(w, [fr EXCEPT !.cont = cont], "discovery", w.url)
         IN  [w |-> [r.w EXCEPT !.hist.nDisc = @ + 1], fr |-> r.fr]
    ELSE after_load(w, [fr EXCEPT !.cont = cont])

\* A faulty resumption that forgets to clear the discovery url.
load_server_metadata_keep_url(w, fr, metadata) ==
    after_load([w EXCEPT !.md = Update(w.md, metadata), !.hist.nDiscOk = @ + 1], fr)
\* A faulty resumption that replaces the cache by the document.
load_server_metadata_overwrite(w, fr, metadata) ==
    after_load([w EXCEPT !.url = None, !.md = metadata, !.hist.nDiscOk = @ + 1], fr)

\* lines 25-27, when the fetch has answered with the document `metadata`
load_server_metadata_resume(w, fr, metadata) ==
    after_load([w EXCEPT !.url = None,
                         !.md = Update(w.md, metadata),
                         !.hist.nDiscOk = @ + 1], fr)

\* A faulty resolver that gives up the discovery url when the fetch fails.
load_server_metadata_fail_clears(w, fr) ==
    Raise([w EXCEPT !.url = None], fr, "TransportError")

\* line 24, when the fetch fails in the transport: the exception leaves
\* _load_server_metadata before lines 25-26 run
load_server_metadata_fail(w, fr) == Raise(w, fr, "TransportError")

\* ------------------------------------------------- create_authorization_url
\* BaseApp._create_oauth2_authorization_url: the url carries client_id,
\* redirect_uri, a state (generated when the caller gave none) and the params.
create_oauth2_authorization_url(endpoint, redirect_uri, kwargs) ==
    LET state == IF "state" \in DOMAIN kwargs THEN kwargs["state"] ELSE "generated_state"
    IN  [url |-> [endpoint |-> endpoint, client_id |-> cfg.client_id,
                  redirect_uri |-> redirect_uri, state |-> state, params |-> kwargs],
         state |-> state]

\* BaseApp.save_authorize_data(request, **kwargs): what it is given is kept in
\* the session of the request
save_authorize_data(session, kwargs) == Update(session, kwargs)

\* lines 99-100, when create_authorization_url has returned rv: redirect_uri and
\* rv are saved in the session and the redirect to rv['url'] is returned
authorize_redirect_resume(w, fr, rv) ==
    Return(w, [fr EXCEPT !.session =
                   save_authorize_data(fr.arg.request.session,
                                       Update([redirect_uri |-> fr.arg.redirect_uri], rv))],
           [RedirectResponse |-> rv.url])

\* create_authorization_url returns rv: to authorize_redirect (line 98), or to a
\* caller that called it by itself
create_authorization_url_return(w, fr, rv) ==
    IF fr.op = "authorize_redirect"
    THEN authorize_redirect_resume(w, fr, rv)
    ELSE Return(w, fr, rv)

\* lines 52-57: the request token is fetched with the static request-token params
create_oauth1_authorization_url(w, fr, authorization_endpoint, kwargs) ==
    Await(w, [fr EXCEPT !.loc = [authorization_endpoint |-> authorization_endpoint,
                                 kwargs |-> kwargs]],
          Call("request_token", cfg.request_token_url, None, EmptyDict,
               cfg.request_token_params))

\* lines 58-60, when the request token `token` has arrived
create_oauth1_authorization_url_resume(w, fr, token) ==
    create_authorization_url_return(w, fr, [url |-> [endpoint |-> fr.loc.authorization_endpoint,
                            client_id |-> cfg.client_id,
                            redirect_uri |-> fr.arg.redirect_uri,
                            request_token |-> token,
                            params |-> fr.loc.kwargs],
                   request_token |-> token])

\* A faulty builder that prefers the discovered endpoint to the configured one.
create_authorization_url_body_metadata_first(w, fr) ==
    LET authorization_endpoint ==
            IF "authorization_endpoint" \in DOMAIN w.md /\ cfg.request_token_url = None
            THEN w.md["authorization_endpoint"]
            ELSE cfg.authorize_url
        kwargs == IF cfg.authorize_params # EmptyDict
                  THEN Update(fr.arg.kwargs, cfg.authorize_params)
                  ELSE fr.arg.kwargs
    IN  IF authorization_endpoint = None
        THEN Raise(w, fr, "RuntimeError_authorize_url")
        ELSE IF cfg.request_token_url # None
        THEN create_oauth1_authorization_url(w, fr, authorization_endpoint, kwargs)
        ELSE create_authorization_url_return(w, fr, create_oauth2_authorization_url(
                               authorization_endpoint, fr.arg.redirect_uri, kwargs))

\* lines 70-88, metadata loaded
create_authorization_url_body(w, fr) ==
    LET metadata == w.md
        authorization_endpoint ==
            IF cfg.authorize_url = None /\ cfg.request_token_url = None
            THEN Get(metadata, "authorization_endpoint")
            ELSE cfg.authorize_url
        kwargs == IF cfg.authorize_params # EmptyDict
                  THEN Update(fr.arg.kwargs, cfg.authorize_params)
                  ELSE fr.arg.kwargs
    IN  IF authorization_endpoint = None
        THEN Raise(w, fr, "RuntimeError_authorize_url")
        ELSE IF cfg.request_token_url # None
        THEN create_oauth1_authorization_url(w, fr, authorization_endpoint, kwargs)
        ELSE create_authorization_url_return(w, fr, create_oauth2_authorization_url(
                               authorization_endpoint, fr.arg.redirect_uri, kwargs))

\* line 69
create_authorization_url(w, fr) == load_server_metadata(w, fr, "create_authorization_url")

\* line 98.  fr.arg: request, redirect_uri, kwargs
authorize_redirect(w, fr) == create_authorization_url(w, fr)

\* --------------------------------------------------------- fetch_access_token
\* An OAuth1 request token is named by its oauth_token; the dict the provider
\* issued for it:
request_token_dict(rt) == [oauth_token |-> rt, oauth_token_secret |-> "rt_secret"]

\* A faulty exchange in which the static parameters win over the caller's.
fetch_access_token_body_static_wins(w, fr) ==
    LET token_endpoint ==
            IF cfg.access_token_url = None /\ cfg.request_token_url = None
            THEN Get(w.md, "token_endpoint")
            ELSE cfg.access_token_url
    IN  Await(w, fr, Call("token", token_endpoint, None, EmptyDict,
                          Update(fr.arg.params, cfg.access_token_params)))

\* A faulty OAuth1 exchange in which the request token wins over the verifier.
fetch_access_token_body_request_token_wins(w, fr) ==
    IF cfg.request_token_url # None /\ fr.arg.request_token # None
    THEN Await(w, fr, Call("token", cfg.access_token_url, None,
                           Update(fr.arg.params, request_token_dict(fr.arg.request_token)),
                           cfg.access_token_params))
    ELSE fetch_access_token_body_static_wins(w, fr)

\* lines 122-146, metadata loaded.  fr.arg: redirect_uri, request_token, params
fetch_access_token_body(w, fr) ==
    LET metadata == w.md
        token_endpoint ==
            IF cfg.access_token_url = None /\ cfg.request_token_url = None
            THEN Get(metadata, "token_endpoint")
            ELSE cfg.access_token_url
    IN  IF cfg.request_token_url # None
        THEN IF fr.arg.request_token = None
             THEN Raise(w, fr, "MissingRequestTokenError")
             ELSE Await(w, fr, Call("token", token_endpoint, None,
                                    Update(Update(EmptyDict,
                                                  request_token_dict(fr.arg.request_token)),
                                           fr.arg.params),
                                    cfg.access_token_params))
        ELSE Await(w, fr, Call("token", token_endpoint, None, EmptyDict,
                               Update(Update(EmptyDict, cfg.access_token_params),
                                      fr.arg.params)))

\* line 121
fetch_access_token(w, fr) == load_server_metadata(w, fr, "fetch_access_token")

\* ------------------------------------------------------ authorize_access_token
\* lines 43-49: what the callback request carries
generate_access_token_params(req) ==
    IF cfg.request_token_url # None
    THEN req.scope
    ELSE [code |-> Get(req.query_params, "code"), state |-> Get(req.query_params, "state")]

\* BaseApp.retrieve_access_token_params: OAuth1 adds the request token kept in the
\* session; OAuth2 matches the echoed state against the persisted one (a mismatch
\* is a hard failure) and hands on code and state.
retrieve_access_token_params(req) ==
    LET params == generate_access_token_params(req)
    IN  IF cfg.request_token_url # None
        THEN [err |-> None,
              params |-> SetItem(params, "request_token", req.session.request_token)]
        ELSE IF params.state # req.session.state
        THEN [err |-> "StateMismatch", params |-> EmptyDict]
        ELSE [err |-> None,
              params |-> IF params.state # None THEN params ELSE [code |-> params.code]]

\* fetch_access_token(redirect_uri=None, request_token=None, **params): the two
\* named arguments are taken out of the keyword arguments
Without(d, ks) == [k \in DOMAIN d \ ks |-> d[k]]

\* lines 108-110.  fr.arg: request, kwargs
authorize_access_token(w, fr) ==
    LET got == retrieve_access_token_params(fr.arg.request)
        params == Update(got.params, fr.arg.kwargs)
    IN  IF got.err # None
        THEN Raise(w, fr, got.err)
        ELSE fetch_access_token(w, [fr EXCEPT !.arg =
                 [redirect_uri |-> Get(params, "redirect_uri"),
                  request_token |-> Get(params, "request_token"),
                  params |-> Without(params, {"redirect_uri", "request_token"}),
                  request |-> fr.arg.request, kwargs |-> fr.arg.kwargs]])

\* -------------------------------------------------------------------- userinfo
\* line 172: metadata['userinfo_endpoint'] (a KeyError without it), then self.get,
\* which is self.request('GET', url, **kwargs).  fr.arg: token, request, hookret
userinfo_body(w, fr) ==
    IF "userinfo_endpoint" \notin DOMAIN w.md
    THEN Raise(w, fr, "KeyError_userinfo_endpoint")
    ELSE request(w, fr, "api", w.md["userinfo_endpoint"], fr.arg.token,
                 FALSE, fr.arg.request, fr.arg.hookret)

\* line 171
userinfo(w, fr) == load_server_metadata(w, fr, "userinfo")

\* authlib.oidc.core.UserInfo(data)
UserInfo(data) == [userinfo |-> data]

\* compliance_fix(self, data) for the fixes a provider may be configured with
compliance_fix_data(compliance_fix, data) == <<compliance_fix, data>>

\* lines 173-181, when the api call has answered with a response carrying `data`:
\* a userinfo_compliance_fix in the metadata is applied to it, awaited when it
\* is a coroutine function
userinfo_resume(w, fr, data) ==
    LET compliance_fix == Get(w.md, "userinfo_compliance_fix")
    IN  IF compliance_fix = None
        THEN Return(w, fr, UserInfo(data))
        ELSE IF compliance_fix = "async_fix"
        THEN [w |-> w, fr |-> [fr EXCEPT !.pc = "compliance_fix",
                                        !.loc = [compliance_fix |-> compliance_fix,
                                                 data |-> data]]]
        ELSE IF compliance_fix = "sync_fix_raises"
        THEN Raise(w, fr, "FixError")
        ELSE Return(w, fr, UserInfo(compliance_fix_data(compliance_fix, data)))

\* line 178 resumed: the awaited fix has answered, line 181
userinfo_fix_resume(w, fr) ==
    Return(w, fr, UserInfo(compliance_fix_data(fr.loc.compliance_fix, fr.loc.data)))

\* -------------------------------------------------------------- parse_id_token
\* lines 193-197
claims_cls_of(token) == IF token.has_access_token THEN "CodeIDToken" ELSE "ImplicitIDToken"

\* A faulty allow-list with no RS256 default.
alg_values_no_default(metadata) ==
    IF "id_token_signing_alg_values_supported" \in DOMAIN metadata
    THEN metadata["id_token_signing_alg_values_supported"]
    ELSE {"RS256", "HS256", "ES256"}

\* lines 203-205: the discovered algorithms, or RS256 when there are none
alg_values_of(metadata) ==
    IF /\ "id_token_signing_alg_values_supported" \in DOMAIN metadata
       /\ metadata["id_token_signing_alg_values_supported"] # {}
    THEN metadata["id_token_signing_alg_values_supported"]
    ELSE {"RS256"}

\* authlib.jose JsonWebToken(alg_values).decode followed by claims.validate: the
\* alg must be in the allow-list, the key is looked up by kid, the signature and
\* then the claims (issuer when known, nonce when the session holds one) are
\* validated.
jwt_decode(alg_values, jwk_set, id_token, claims_options, nonce) ==
    IF id_token.alg \notin alg_values THEN "InvalidIDToken"
    ELSE IF id_token.kid \notin jwk_set THEN "InvalidIDToken"
    ELSE IF ~id_token.sig_ok THEN "InvalidIDToken"
    ELSE IF claims_options # None /\ id_token.iss # claims_options THEN "InvalidIDToken"
    ELSE IF nonce # None /\ id_token.nonce # nonce THEN "InvalidIDToken"
    ELSE "ok"

\* A faulty verifier that hands the decoder no session nonce.
parse_id_token_decode_no_nonce(w, fr, jwk_set) ==
    LET r == jwt_decode(fr.loc.alg_values, jwk_set, fr.arg.token.id_token,
                        fr.loc.claims_options, None)
    IN  IF r = "ok"
        THEN Return(w, fr, [iss |-> fr.arg.token.id_token.iss,
                            nonce |-> fr.arg.token.id_token.nonce])
        ELSE Raise(w, fr, r)

\* lines 188-190 and 209-221, with the JWK set in hand: the session's nonce goes
\* into claims_params
parse_id_token_decode(w, fr, jwk_set) ==
    LET r == jwt_decode(fr.loc.alg_values, jwk_set, fr.arg.token.id_token,
                        fr.loc.claims_options, fr.arg.nonce)
    IN  IF r = "ok"
        THEN Return(w, fr, [iss |-> fr.arg.token.id_token.iss,
                            nonce |-> fr.arg.token.id_token.nonce])
        ELSE Raise(w, fr, r)

\* _fetch_jwk_set returns jwk_set: to parse_id_token (line 207), which goes on to
\* decode, or to a caller that called it by itself
after_jwk_set(w, fr, jwk_set) ==
    IF fr.op = "fetch_jwk_set"
    THEN Return(w, fr, jwk_set)
    ELSE parse_id_token_decode(w, fr, jwk_set)

\* lines 225-233, metadata loaded.  fr.loc.force is the force argument; the local
\* jwk_set of line 225 is kept in fr.loc.jwk_set, <<s>> for a set s and << >> for None
fetch_jwk_set_body(w, fr) ==
    LET metadata == w.md
        jwk_set == IF "jwks" \in DOMAIN metadata THEN <<metadata["jwks"]>> ELSE << >>
        fr1 == [fr EXCEPT !.loc = SetItem(@, "jwk_set", jwk_set)]
    IN  IF jwk_set # << >> /\ jwk_set[1] # {} /\ ~fr.loc.force
        THEN after_jwk_set(w, fr1, jwk_set[1])
        ELSE IF Get(metadata, "jwks_uri") = None
        THEN Raise(w, fr1, "RuntimeError_jwks_uri")
        ELSE fetch_server_metadata(w, fr1, "jwks", metadata["jwks_uri"])

\* A faulty fetch that keeps nothing of the cache but the JWK set.
fetch_jwk_set_resume_overwrite(w, fr, jwk_set) ==
    after_jwk_set([w EXCEPT !.md = [jwks |-> jwk_set]], fr, jwk_set)

\* lines 234-235, when the fetch has answered with `jwk_set`
fetch_jwk_set_resume(w, fr, jwk_set) ==
    after_jwk_set([w EXCEPT !.md = SetItem(w.md, "jwks", jwk_set)], fr, jwk_set)

\* line 224
fetch_jwk_set(w, fr) == load_server_metadata(w, fr, "fetch_jwk_set")

\* lines 200-207, metadata loaded
parse_id_token_body(w, fr) ==
    LET metadata == w.md
        claims_options == IF fr.arg.claims_options = None /\ "issuer" \in DOMAIN metadata
                          THEN metadata["issuer"]
                          ELSE fr.arg.claims_options
    IN  fetch_jwk_set(w, [fr EXCEPT !.loc = [claims_options |-> claims_options,
                                             claims_cls |-> claims_cls_of(fr.arg.token),
                                             alg_values |-> alg_values_of(metadata),
                                             force |-> FALSE]])

\* A faulty verifier that takes the metadata for resolved when there is no id_token.
parse_id_token_clears_url(w, fr) ==
    IF ~fr.arg.token.has_id_token
    THEN ReturnNone([w EXCEPT !.url = None], fr)
    ELSE load_server_metadata(w, fr, "parse_id_token")

\* lines 185-199.  fr.arg: token (has_id_token, has_access_token, id_token),
\* nonce (the session's), claims_options
parse_id_token(w, fr) ==
    IF ~fr.arg.token.has_id_token
    THEN ReturnNone(w, fr)
    ELSE load_server_metadata(w, fr, "parse_id_token")

\* what runs once `metadata = await self._load_server_metadata()` has its value
after_load(w, fr) ==
    CASE fr.cont = "create_authorization_url" -> create_authorization_url_body(w, fr)
      [] fr.cont = "fetch_access_token" -> fetch_access_token_body(w, fr)
      [] fr.cont = "userinfo" -> userinfo_body(w, fr)
      [] fr.cont = "parse_id_token" -> parse_id_token_body(w, fr)
      [] fr.cont = "fetch_jwk_set" -> fetch_jwk_set_body(w, fr)

\* ------------------------------------------------------------ configurations
BaseCfg == [client_id |-> "cid", api_base_url |-> None,
            request_token_url |-> None, request_token_params |-> EmptyDict,
            authorize_url |-> None, authorize_params |-> EmptyDict,
            access_token_url |-> None, access_token_params |-> EmptyDict,
            fetch_token |-> "none",
            server_metadata |-> EmptyDict, server_metadata_url |-> None]

\* discovery documents a provider may serve
DocFull == [issuer |-> "iss_disc", authorization_endpoint |-> "authz_disc",
            token_endpoint |-> "token_disc", userinfo_endpoint |-> "userinfo_disc",
            jwks_uri |-> "jwks_disc",
            id_token_signing_alg_values_supported |-> {"RS256", "ES256"}]
DocBare == [issuer |-> "iss_disc", authorization_endpoint |-> "authz_disc"]
DocNoAlgs == [issuer |-> "iss_disc", jwks_uri |-> "jwks_disc",
              id_token_signing_alg_values_supported |-> {}]

\* statically configured metadata (the constructor's keyword arguments)
StaticEndpoints == [issuer |-> "iss_static", userinfo_endpoint |-> "userinfo_static",
                    jwks_uri |-> "jwks_static", revocation_endpoint |-> "revoke_static"]
StaticJwks == [jwks |-> {"k1"}, revocation_endpoint |-> "revoke_static",
               id_token_signing_alg_values_supported |-> {"HS256"}]

RemoteJwks == {"k1", "k2"}

\* --------------------------------------------------------------------- actions
Ready(f) == flow[f].pc \in {"idle", "done"} /\ hist.started < MaxOps
Quiet == \A g \in Flows : flow[g].pc \in {"idle", "done"}

Begin(op, arg) == [NewFlow EXCEPT !.op = op, !.arg = arg, !.url0 = server_metadata_url]
Started == [World EXCEPT !.hist.started = @ + 1]

Commit(f, r) ==
    /\ server_metadata_url' = r.w.url
    /\ server_metadata' = r.w.md
    /\ hist' = r.w.hist
    /\ flow' = [flow EXCEPT ![f] = r.fr]
    /\ UNCHANGED <<cfg, remote>>

Request(f, url, token, withhold_token, req, hookret) ==
    /\ Ready(f)
    /\ Commit(f, request(Started,
                         Begin("request", [url |-> url, token |-> token,
                                           withhold_token |-> withhold_token,
                                           request |-> req, hookret |-> hookret]),
                         "api", url, token, withhold_token, req, hookret))

CreateAuthorizationUrl(f, redirect_uri, kwargs) ==
    /\ Ready(f)
    /\ Commit(f, create_authorization_url(Started,
                     Begin("create_authorization_url",
                           [redirect_uri |-> redirect_uri, kwargs |-> kwargs])))

\* fetch_access_token called by itself.  session is what the caller's session
\* holds at the time of the call: line 112 takes no request, so the operation is
\* not given it and fr.arg.session is read by no operator of the model.
FetchAccessToken(f, redirect_uri, request_token, params, session) ==
    /\ Ready(f)
    /\ Commit(f, fetch_access_token(Started,
                     Begin("fetch_access_token",
                           [redirect_uri |-> redirect_uri, request_token |-> request_token,
                            params |-> params, session |-> session])))

AuthorizeAccessToken(f, req, kwargs) ==
    /\ Ready(f)
    /\ Commit(f, authorize_access_token(Started,
                     Begin("authorize_access_token", [request |-> req, kwargs |-> kwargs])))

Userinfo(f, token, req, hookret) ==
    /\ Ready(f)
    /\ Commit(f, userinfo(Started,
                     Begin("userinfo", [token |-> token, request |-> req,
                                        hookret |-> hookret])))

ParseIdToken(f, token, nonce, claims_options) ==
    /\ Ready(f)
    /\ Commit(f, parse_id_token(Started,
                     Begin("parse_id_token", [token |-> token, nonce |-> nonce,
                                              claims_options |-> claims_options])))

AuthorizeRedirect(f, req, redirect_uri, kwargs) ==
    /\ Ready(f)
    /\ Commit(f, authorize_redirect(Started,
                     Begin("authorize_redirect",
                           [request |-> req, redirect_uri |-> redirect_uri,
                            kwargs |-> kwargs])))

\* _fetch_jwk_set(force) called by itself
FetchJwkSet(f, force) ==
    /\ Ready(f)
    /\ Commit(f, fetch_jwk_set(Started,
                     [Begin("fetch_jwk_set", [force |-> force])
                         EXCEPT !.loc = [force |-> force]]))

\* the provider answers the discovery fetch with its document
DiscoveryResponse(f) ==
    /\ flow[f].pc = "discovery"
    /\ Commit(f, load_server_metadata_resume(World, flow[f], remote.doc))

\* the discovery fetch fails in the transport: line 24 raises
DiscoveryFailure(f) ==
    /\ flow[f].pc = "discovery"
    /\ Commit(f, load_server_metadata_fail(World, flow[f]))

JwksResponse(f) ==
    /\ flow[f].pc = "jwks"
    /\ Commit(f, fetch_jwk_set_resume(World, flow[f], remote.jwks))

JwksFailure(f) ==
    /\ flow[f].pc = "jwks"
    /\ Commit(f, Raise(World, flow[f], "TransportError"))

RequestTokenResponse(f, token) ==
    /\ flow[f].pc = "request_token"
    /\ Commit(f, create_oauth1_authorization_url_resume(World, flow[f], token))

\* line 55 raises: the request-token fetch fails in the transport
RequestTokenFailure(f) ==
    /\ flow[f].pc = "request_token"
    /\ Commit(f, Raise(World, flow[f], "TransportError"))

\* lines 137-138 and 145-146: the token the exchange answers is returned; only
\* an exchange that went to an endpoint can be answered
TokenResponse(f) ==
    /\ flow[f].pc = "token"
    /\ flow[f].net[Len(flow[f].net)].url # None
    /\ Commit(f, Return(World, flow[f], [access_token |-> "AT"]))

\* lines 137 and 145 raise: the exchange fails in the transport (always so when
\* it was started with no endpoint to go to)
TokenFailure(f) ==
    /\ flow[f].pc = "token"
    /\ Commit(f, Raise(World, flow[f], "TransportError"))

\* the awaited self._fetch_token(request) answers
HookReturn(f) ==
    /\ flow[f].pc = "hook"
    /\ Commit(f, request_resume(World, flow[f], flow[f].arg.hookret))

\* line 159 raises: the awaited hook ends in an exception
HookFailure(f) ==
    /\ flow[f].pc = "hook"
    /\ Commit(f, request_resume(World, flow[f], HookError))

\* lines 154 and 167: the response is returned; userinfo (line 172) goes on with
\* the data in it
ApiResponse(f) ==
    /\ flow[f].pc = "api"
    /\ Commit(f, IF flow[f].op = "userinfo"
                 THEN userinfo_resume(World, flow[f], "data")
                 ELSE Return(World, flow[f], [status |-> "200"]))

\* lines 154, 167 and 172 raise: the api call fails in the transport
ApiFailure(f) ==
    /\ flow[f].pc = "api"
    /\ Commit(f, Raise(World, flow[f], "TransportError"))

\* the awaited userinfo_compliance_fix answers
ComplianceFixReturn(f) ==
    /\ flow[f].pc = "compliance_fix"
    /\ Commit(f, userinfo_fix_resume(World, flow[f]))

\* line 178 raises: the awaited fix ends in an exception
ComplianceFixFailure(f) ==
    /\ flow[f].pc = "compliance_fix"
    /\ Commit(f, Raise(World, flow[f], "FixError"))

\* ------------------------------------------------------------- specifications
InitOf(Cfgs, Docs) ==
    /\ cfg \in Cfgs
    /\ remote \in [doc : Docs, jwks : {RemoteJwks}]
    /\ server_metadata_url = cfg.server_metadata_url
    /\ server_metadata = cfg.server_metadata
    /\ flow = [f \in Flows |-> NewFlow]
    /\ hist = [started |-> 0, nDisc |-> 0, nDiscOk |-> 0]

\* -- the gateway and the userinfo fetcher: request with every kind of hook
ApiBaseUrls == {None, "https://api.example/v1/"}
ApiUrls == {"user", "/user", "../user", "https://other.example/user",
            "//other.example/user", "HTTPS://other.example/user", "ftp://h/x"}
UserinfoFixes == {"sync_fix", "sync_fix_raises", "async_fix"}
UserinfoMetadata ==
    {EmptyDict, [userinfo_endpoint |-> "userinfo"]}
    \cup {[userinfo_endpoint |-> "userinfo", userinfo_compliance_fix |-> fix] :
              fix \in UserinfoFixes}
ReqCfgs ==
    {[BaseCfg EXCEPT !.fetch_token = h, !.api_base_url = b, !.server_metadata = sm] :
        h \in {"none", "sync", "async"}, b \in ApiBaseUrls, sm \in UserinfoMetadata}
Tokens == {None, "T1"}
\* what the hook answers: no token, a token, or an exception
HookTokens == {None, "T2", HookError}
Requests == {None, "req"}
\* the answers the hook can give to the call of lines 157-161; a hook that is not
\* consulted (none configured, no request context, an explicit token, or the
\* token withheld) gives no answer
HookAnswers(token, withhold_token, req) ==
    IF cfg.fetch_token # "none" /\ req # None /\ token = None /\ ~withhold_token
    THEN HookTokens
    ELSE {None}

InitReq == InitOf(ReqCfgs, {DocFull})
NextReq ==
    \/ \E url \in ApiUrls, token \in Tokens, wh \in BOOLEAN, req \in Requests :
          \E hookret \in HookAnswers(token, wh, req) :
              Request(1, url, token, wh, req, hookret)
    \/ \E token \in Tokens, req \in Requests :
          \E hookret \in HookAnswers(token, FALSE, req) :
              Userinfo(1, token, req, hookret)
    \/ HookReturn(1)
    \/ HookFailure(1)
    \/ ApiResponse(1)
    \/ ApiFailure(1)
    \/ ComplianceFixReturn(1)
    \/ ComplianceFixFailure(1)
SpecReq == InitReq /\ [][NextReq]_vars

\* -- the OAuth1 and OAuth2 flow drivers, one flow at a time
StaticAccessTokenParams == [grant_type |-> "static_grant", code |-> "static_code"]
StaticAuthorizeParams == [scope |-> "static_scope"]

OAuth2Cfgs ==
    {[BaseCfg EXCEPT !.authorize_url = au, !.access_token_url = tu,
                     !.access_token_params = atp, !.authorize_params = ap,
                     !.server_metadata = sm, !.server_metadata_url = u] :
        au \in {None, "authz_static"}, tu \in {None, "token_static"},
        atp \in {EmptyDict, StaticAccessTokenParams},
        ap \in {EmptyDict, StaticAuthorizeParams},
        sm \in {EmptyDict, StaticEndpoints},
        u \in {None, "discovery_url"}}
OAuth1Cfgs ==
    {[BaseCfg EXCEPT !.request_token_url = "request_token_static",
                     !.request_token_params = [realm |-> "static_realm"],
                     !.authorize_url = au, !.access_token_url = tu,
                     !.access_token_params = atp,
                     !.server_metadata_url = u] :
        au \in {None, "authz_static"}, tu \in {None, "token_static"},
        atp \in {EmptyDict, [oauth_callback |-> "static_cb"]},
        u \in {None, "discovery_url"}}

\* the callback requests: query, ASGI scope and what the session kept
CallbackRequests ==
    {[query_params |-> q, scope |-> [type |-> "http", oauth_verifier |-> "v1"],
      session |-> [state |-> st, request_token |-> rt]] :
        q \in {[code |-> "c1", state |-> "s1"], [code |-> "c2", state |-> "s2"],
               [code |-> "c1"]},
        st \in {None, "s1"},
        rt \in {None, "rt1"}}
CallerKwargs == {EmptyDict, [grant_type |-> "caller_grant"]}
AuthorizeKwargs == {EmptyDict, [scope |-> "caller_scope"], [state |-> "caller_state"]}
\* the requests authorize_redirect is called with: what their session holds
RedirectRequests == {[session |-> ses] : ses \in {EmptyDict, [state |-> "old_state"]}}
RequestTokens == {None, "rt1"}
\* the params fetch_access_token is called with: the code alone, the code and the
\* state echoed in the callback, or the OAuth1 verifier
ExchangeParams == {[code |-> "c1"], [code |-> "c1", state |-> "s1"],
                   [code |-> "c1", state |-> "s2"],
                   [oauth_verifier |-> "v1", oauth_token |-> "rt2"]}
\* what the caller's session holds when fetch_access_token is called by itself
CallerSessions == {[state |-> None], [state |-> "s1"]}

InitTok == InitOf(OAuth2Cfgs \cup OAuth1Cfgs, {DocFull, DocBare, DocNoAlgs})
NextTok ==
    \/ \E kwargs \in AuthorizeKwargs : CreateAuthorizationUrl(1, "cb", kwargs)
    \/ \E req \in RedirectRequests, kwargs \in AuthorizeKwargs :
          AuthorizeRedirect(1, req, "cb", kwargs)
    \/ \E req \in CallbackRequests, kwargs \in CallerKwargs :
          AuthorizeAccessToken(1, req, kwargs)
    \/ \E rt \in RequestTokens, params \in ExchangeParams, session \in CallerSessions :
          FetchAccessToken(1, "cb", rt, params, session)
    \/ DiscoveryResponse(1)
    \/ DiscoveryFailure(1)
    \/ RequestTokenResponse(1, "rt1")
    \/ RequestTokenFailure(1)
    \/ TokenResponse(1)
    \/ TokenFailure(1)
SpecTok == InitTok /\ [][NextTok]_vars

\* -- several flows sharing the RemoteApp, every operation that resolves metadata
SharedCfgs ==
    {[BaseCfg EXCEPT !.fetch_token = "sync", !.server_metadata = sm,
                     !.server_metadata_url = u] :
        sm \in {EmptyDict, StaticEndpoints, StaticJwks},
        u \in {None, "discovery_url"}}
    \cup {[BaseCfg EXCEPT !.fetch_token = "sync", !.server_metadata = StaticEndpoints,
                          !.server_metadata_url = "discovery_url",
                          !.api_base_url = "https://api.example/v1/"]}

GoodIdToken == [has_id_token |-> TRUE, has_access_token |-> TRUE,
                id_token |-> [alg |-> "RS256", kid |-> "k1", sig_ok |-> TRUE,
                              iss |-> "iss_disc", nonce |-> "n1"]]

Operation(f) ==
    \/ CreateAuthorizationUrl(f, "cb", EmptyDict)
    \/ AuthorizeRedirect(f, [session |-> EmptyDict], "cb", EmptyDict)
    \/ FetchAccessToken(f, "cb", None, [code |-> "c1"], [state |-> None])
    \/ Userinfo(f, "T1", None, None)
    \/ ParseIdToken(f, GoodIdToken, "n1", None)

Response(f) ==
    \/ DiscoveryResponse(f)
    \/ DiscoveryFailure(f)
    \/ TokenResponse(f)
    \/ TokenFailure(f)
    \/ ApiResponse(f)
    \/ ApiFailure(f)
    \/ JwksResponse(f)
    \/ JwksFailure(f)

Init == InitOf(SharedCfgs, {DocFull, DocBare})
Next == \E f \in Flows : Operation(f) \/ Response(f)
Spec == Init /\ [][Next]_vars

\* -- the same operations, none started while another is in flight
NextSeq == \E f \in Flows : (Quiet /\ Operation(f)) \/ Response(f)
SpecSeq == Init /\ [][NextSeq]_vars

\* -- the ID token verifier, one flow at a time
IdCfgs ==
    {[BaseCfg EXCEPT !.server_metadata = sm, !.server_metadata_url = u] :
        sm \in {EmptyDict, StaticEndpoints, StaticJwks},
        u \in {None, "discovery_url"}}

IdToken(a, k, sig, i, n) == [alg |-> a, kid |-> k, sig_ok |-> sig, iss |-> i, nonce |-> n]
IdTokens ==
    {[has_id_token |-> TRUE, has_access_token |-> TRUE, id_token |-> t] :
        t \in {IdToken(a, k, sig, "iss_disc", "n1") :
                  a \in {"RS256", "HS256", "ES256"}, k \in {"k1", "k9"}, sig \in BOOLEAN}
              \cup {IdToken("RS256", "k2", TRUE, "iss_disc", "n1"),
                    IdToken("RS256", "k1", TRUE, "iss_static", "n1"),
                    IdToken("RS256", "k1", TRUE, "iss_disc", "n2"),
                    IdToken("RS256", "k1", FALSE, "iss_static", "n2")}}
    \cup {[has_id_token |-> TRUE, has_access_token |-> FALSE,
           id_token |-> IdToken("RS256", "k1", TRUE, "iss_disc", "n1")]}
\* a token response with no id_token in it
NoIdToken == [has_id_token |-> FALSE, has_access_token |-> TRUE]
SessionNonces == {None, "n1"}
ClaimsOptions == {None, "iss_static"}

InitId == InitOf(IdCfgs, {DocFull, DocBare, DocNoAlgs})
NextId ==
    \/ \E token \in IdTokens, nonce \in SessionNonces, options \in ClaimsOptions :
          ParseIdToken(1, token, nonce, options)
    \/ \E nonce \in SessionNonces : ParseIdToken(1, NoIdToken, nonce, None)
    \/ \E force \in BOOLEAN : FetchJwkSet(1, force)
    \/ DiscoveryResponse(1)
    \/ DiscoveryFailure(1)
    \/ JwksResponse(1)
    \/ JwksFailure(1)
SpecId == InitId /\ [][NextId]_vars

\* ------------------------------------------------------------ request: claims
IsRequest(f) == flow[f].op = "request"
Sent(f) == Range(flow[f].net)
\* no token can be had from the hook: none configured, no request context to
\* hand it, or it answers None
NoHookToken(f) ==
    \/ cfg.fetch_token = "none"
    \/ flow[f].arg.request = None
    \/ flow[f].arg.hookret = None

\* C7: a request with withhold_token set never invokes the token hook and never
\* raises MissingTokenError, whatever token, hook or request context there is:
\* exactly one call goes out, and it carries no token.
C7_WithholdSkipsTokenResolution ==
    \A f \in Flows :
        (IsRequest(f) /\ flow[f].arg.withhold_token) =>
            /\ flow[f].hook = 0
            /\ flow[f].pc \in {"api", "done"}
            /\ flow[f].res \in {"none", "ok", "TransportError"}
            /\ Len(flow[f].net) = 1
            /\ flow[f].net[1].token = None
            /\ flow[f].net[1].url = api_url(flow[f].arg.url)

C7_Witness ==
    \E f \in Flows :
        /\ IsRequest(f) /\ flow[f].arg.withhold_token
        /\ flow[f].pc = "done" /\ flow[f].res = "ok"
        /\ flow[f].arg.token = None /\ flow[f].arg.request # None
        /\ cfg.fetch_token = "async" /\ flow[f].arg.hookret = None

\* C8: a request that does not withhold the token, with no explicit token and no
\* token to be had from the hook, ends in MissingTokenError and sends nothing
\* (a hook that ends in an exception of its own gives no answer at all: the
\* request ends in that exception, and sends nothing either).
C8_MissingTokenNoCall ==
    \A f \in Flows :
        (/\ IsRequest(f) /\ ~flow[f].arg.withhold_token
         /\ flow[f].arg.token = None /\ NoHookToken(f)) =>
            /\ flow[f].net = << >>
            /\ flow[f].pc \in {"hook", "done"}
            /\ flow[f].pc = "done" =>
                  \/ flow[f].res = "MissingTokenError"
                  \/ flow[f].res = HookError /\ flow[f].hook = 1

C8_Witness ==
    \E f \in Flows :
        /\ IsRequest(f) /\ ~flow[f].arg.withhold_token
        /\ flow[f].arg.token = None /\ flow[f].arg.request # None
        /\ cfg.fetch_token = "async" /\ flow[f].arg.hookret = None
        /\ flow[f].hook = 1
        /\ flow[f].pc = "done" /\ flow[f].res = "MissingTokenError"

\* the parts of C9 that do not depend on a request context being passed
C9_ExplicitTokenFirst(f) ==
    flow[f].arg.token # None =>
        /\ flow[f].hook = 0
        /\ flow[f].pc \in {"api", "done"}
        /\ Len(flow[f].net) = 1
        /\ flow[f].net[1].token = flow[f].arg.token
C9_MissingTokenOnlyLast(f) ==
    flow[f].res = "MissingTokenError" =>
        flow[f].arg.token = None /\ NoHookToken(f) /\ flow[f].net = << >>
C9_HookResultAttached(f) ==
    /\ flow[f].hook = 1
    /\ flow[f].hookarg = flow[f].arg.request
    /\ flow[f].pc # "hook" =>
          IF flow[f].res = HookError \/ flow[f].arg.hookret = HookError
          THEN flow[f].res = HookError /\ flow[f].net = << >>
          ELSE IF flow[f].arg.hookret = None
          THEN flow[f].res = "MissingTokenError"
          ELSE /\ Len(flow[f].net) = 1
               /\ flow[f].net[1].token = flow[f].arg.hookret
               /\ flow[f].res \in {"none", "ok", "TransportError"}

\* C9 as stated: with no explicit token and a hook configured the hook is invoked
\* (whether or not the caller passed a request context) and its result attached.
C9_Original ==
    \A f \in Flows :
        (IsRequest(f) /\ ~flow[f].arg.withhold_token) =>
            /\ C9_ExplicitTokenFirst(f)
            /\ (flow[f].arg.token = None /\ cfg.fetch_token # "none") =>
                   C9_HookResultAttached(f)
            /\ C9_MissingTokenOnlyLast(f)

\* C9 amended: an explicit token is attached and the hook is not invoked; with no
\* explicit token, a hook configured (sync or async) and a request context passed,
\* the hook is invoked once with that context and its result attached (or its
\* exception ends the request with nothing sent); with no request context the
\* hook is not invoked; MissingTokenError is raised only when neither yields a
\* token.
C9_TokenPriority ==
    \A f \in Flows :
        (IsRequest(f) /\ ~flow[f].arg.withhold_token) =>
            /\ C9_ExplicitTokenFirst(f)
            /\ (flow[f].arg.token = None /\ cfg.fetch_token # "none"
                    /\ flow[f].arg.request # None) =>
                   C9_HookResultAttached(f)
            /\ (flow[f].arg.token = None /\ flow[f].arg.request = None) =>
                   flow[f].hook = 0
            /\ C9_MissingTokenOnlyLast(f)

C9_Witness ==
    \E f \in Flows :
        /\ IsRequest(f) /\ ~flow[f].arg.withhold_token
        /\ flow[f].arg.token = None /\ flow[f].arg.request # None
        /\ cfg.fetch_token = "async" /\ flow[f].hook = 1
        /\ flow[f].pc = "done" /\ flow[f].res = "ok"
        /\ flow[f].net[1].token = "T2"

\* ------------------------------------------------------- token exchange: claims
OAuth1 == cfg.request_token_url # None
IsExchange(f) == flow[f].op \in {"fetch_access_token", "authorize_access_token"}
\* fetch_access_token has been entered (authorize_access_token got past line 108)
InFetch(f) == IsExchange(f) /\ "params" \in DOMAIN flow[f].arg
TokenCalls(f) == {c \in Range(flow[f].net) : c.call = "token"}

\* C4: OAuth1 fetch_access_token with no request token ends in
\* MissingRequestTokenError and puts no call on the wire, whatever the
\* configuration (a discovery url still pending included).
C4_Original ==
    \A f \in Flows :
        (OAuth1 /\ InFetch(f) /\ flow[f].arg.request_token = None) =>
            /\ flow[f].net = << >>
            /\ flow[f].pc = "done"
            /\ flow[f].res = "MissingRequestTokenError"

\* the state echoed in the callback and the state persisted at authorization
\* time, as a redemption has them: authorize_access_token in the query and the
\* session of its request, fetch_access_token called by itself in its params and
\* in the session of its caller
EchoedState(f) ==
    IF flow[f].op = "authorize_access_token"
    THEN Get(flow[f].arg.request.query_params, "state")
    ELSE Get(flow[f].arg.params, "state")
PersistedState(f) ==
    IF flow[f].op = "authorize_access_token"
    THEN flow[f].arg.request.session.state
    ELSE flow[f].arg.session.state

\* C5: an OAuth2 redemption (authorize_access_token or fetch_access_token) whose
\* echoed state differs from the persisted state ends in StateMismatch with no
\* call on the wire: no discovery fetch, no token exchange.
C5_Original ==
    \A f \in Flows :
        (~OAuth1 /\ IsExchange(f) /\ EchoedState(f) # PersistedState(f)) =>
            /\ flow[f].pc = "done"
            /\ flow[f].res = "StateMismatch"
            /\ flow[f].net = << >>

\* C6: OAuth2, callback state equal to the persisted state: the exchange carries
\* the code of the callback query, and its parameters are the static
\* access_token_params overlaid with the caller's params: every caller param as
\* given, every other static param as configured, nothing else.
C6_ExchangeParams ==
    \A f \in Flows :
        (~OAuth1 /\ InFetch(f)) =>
            \A c \in TokenCalls(f) :
                /\ DOMAIN c.params = DOMAIN cfg.access_token_params \cup DOMAIN flow[f].arg.params
                /\ \A k \in DOMAIN flow[f].arg.params : c.params[k] = flow[f].arg.params[k]
                /\ \A k \in DOMAIN cfg.access_token_params \ DOMAIN flow[f].arg.params :
                       c.params[k] = cfg.access_token_params[k]
                /\ flow[f].op = "authorize_access_token" =>
                       /\ EchoedState(f) = PersistedState(f)
                       /\ c.params["code"] = Get(flow[f].arg.request.query_params, "code")
                       /\ \A k \in DOMAIN flow[f].arg.kwargs :
                              c.params[k] = flow[f].arg.kwargs[k]

C6_Witness ==
    \E f \in Flows :
        /\ ~OAuth1 /\ flow[f].op = "authorize_access_token"
        /\ flow[f].pc = "done" /\ flow[f].res = "ok"
        /\ cfg.access_token_params = StaticAccessTokenParams
        /\ flow[f].arg.kwargs = [grant_type |-> "caller_grant"]
        /\ \E c \in TokenCalls(f) :
               c.params = [code |-> "c1", state |-> "s1", grant_type |-> "caller_grant"]

\* ------------------------------------------------------------ discovery: claims
DiscoveryCalls(f) == {i \in DOMAIN flow[f].net : flow[f].net[i].call = "discovery"}

\* C1: operations that do not overlap fetch the discovery document at most once:
\* no second fetch succeeds, a successful fetch leaves the discovery url cleared,
\* and an operation begun with the url cleared (or never configured) resolves the
\* metadata with no discovery call; within one operation a second resolution
\* makes none either.
C1_FetchedAtMostOnce ==
    /\ hist.nDiscOk <= 1
    /\ hist.nDiscOk = 1 => server_metadata_url = None
    /\ cfg.server_metadata_url = None => hist.nDisc = 0
    /\ \A f \in Flows :
          /\ flow[f].url0 = None => DiscoveryCalls(f) = {}
          /\ Cardinality(DiscoveryCalls(f)) <= 1

C1_Witness ==
    /\ hist.nDiscOk = 1 /\ hist.nDisc = 2 /\ hist.started = 3
    /\ \E f \in Flows :
          /\ flow[f].op = "parse_id_token" /\ flow[f].url0 = None
          /\ flow[f].pc = "done" /\ flow[f].res = "ok"
          /\ Len(flow[f].net) = 1 /\ flow[f].net[1].call = "jwks"

\* C2: with flows that overlap, the discovery document is still not fetched
\* twice.
C2_Original == hist.nDiscOk <= 1

\* C3: whatever the interleaving, once every flow has finished and discovery has
\* answered, the discovery url is cleared and the cache is the static metadata
\* overlaid with the discovery document: each key of the document as served, each
\* other static key as configured, and beside them only the cached JWK set.
ExpectedKeys == DOMAIN cfg.server_metadata \cup DOMAIN remote.doc
Expected(k) == IF k \in DOMAIN remote.doc THEN remote.doc[k] ELSE cfg.server_metadata[k]

C3_CacheIsMerged ==
    (Quiet /\ hist.nDiscOk >= 1) =>
        /\ server_metadata_url = None
        /\ DOMAIN server_metadata \ {"jwks"} = ExpectedKeys \ {"jwks"}
        /\ \A k \in ExpectedKeys \ {"jwks"} : server_metadata[k] = Expected(k)
        /\ "jwks" \in DOMAIN server_metadata =>
              \/ "jwks" \in ExpectedKeys /\ server_metadata["jwks"] = Expected("jwks")
              \/ server_metadata["jwks"] = remote.jwks
        /\ "jwks" \in ExpectedKeys => "jwks" \in DOMAIN server_metadata

C3_Witness ==
    /\ Quiet /\ hist.nDiscOk = 2
    /\ cfg.server_metadata = StaticEndpoints /\ remote.doc = DocBare
    /\ server_metadata["revocation_endpoint"] = "revoke_static"
    /\ server_metadata["jwks_uri"] = "jwks_static"
    /\ server_metadata["issuer"] = "iss_disc"
    /\ \E f, g \in Flows : f # g /\ flow[f].url0 # None /\ flow[g].url0 # None
                          /\ flow[f].res = "ok" /\ flow[g].res = "ok"

\* ----------------------------------------------------------- ID tokens: claims
Parsing(f) == flow[f].op = "parse_id_token" /\ flow[f].arg.token.has_id_token
\* the metadata has been resolved and lines 200-205 have run
Resolved(f) == Parsing(f) /\ "alg_values" \in DOMAIN flow[f].loc

\* the allow-list as C10 words it: the discovered algorithms when the metadata
\* has the key with a non-empty value, RS256 alone otherwise
C10_AllowList ==
    IF "id_token_signing_alg_values_supported" \in DOMAIN server_metadata
    THEN IF server_metadata["id_token_signing_alg_values_supported"] = {}
         THEN {"RS256"}
         ELSE server_metadata["id_token_signing_alg_values_supported"]
    ELSE {"RS256"}

C10_AlgRejected(f) ==
    Resolved(f) /\ flow[f].pc = "done" /\ flow[f].arg.token.id_token.alg \notin C10_AllowList

\* C10 as stated: every ID token whose alg is outside the allow-list ends in
\* InvalidIDToken (transport failures set aside).
C10_Original ==
    \A f \in Flows :
        (C10_AlgRejected(f) /\ flow[f].res # "TransportError") =>
            flow[f].res = "InvalidIDToken"

\* C10 amended: the allow-list is as stated, and an ID token whose alg is outside
\* it is never accepted, whatever its signature: the call ends in InvalidIDToken
\* whenever the JWK set could be obtained, and otherwise in the error of the step
\* that obtains it, which runs first (no jwks and no jwks_uri known, or the JWKS
\* fetch failed in the transport).
C10_AlgAllowList ==
    \A f \in Flows :
        /\ Resolved(f) => flow[f].loc.alg_values = C10_AllowList
        /\ C10_AlgRejected(f) =>
              /\ flow[f].res \in {"InvalidIDToken", "RuntimeError_jwks_uri", "TransportError"}
              /\ flow[f].res = "RuntimeError_jwks_uri" =>
                    /\ "jwks_uri" \notin DOMAIN server_metadata
                    /\ flow[f].net = << >> \/ flow[f].net[Len(flow[f].net)].call = "discovery"
              /\ flow[f].res = "TransportError" =>
                    flow[f].net[Len(flow[f].net)].call = "jwks"

C10_Witness ==
    \E f \in Flows :
        /\ C10_AlgRejected(f) /\ flow[f].res = "InvalidIDToken"
        /\ cfg.server_metadata = StaticJwks /\ remote.doc = DocNoAlgs
        /\ flow[f].url0 # None
        /\ flow[f].arg.token.id_token = [alg |-> "HS256", kid |-> "k1", sig_ok |-> TRUE,
                                         iss |-> "iss_disc", nonce |-> "n1"]
        /\ flow[f].arg.nonce = "n1" /\ flow[f].arg.claims_options = None

\* the call has ended for want of a JWK set, in the step that runs before the
\* token is decoded (line 207): no jwks cached and no jwks_uri known, or the
\* fetch of the JWK set failed in the transport
NoJwkSet(f) ==
    \/ /\ flow[f].res = "RuntimeError_jwks_uri"
       /\ "jwks_uri" \notin DOMAIN server_metadata
       /\ flow[f].net = << >> \/ flow[f].net[Len(flow[f].net)].call = "discovery"
    \/ /\ flow[f].res = "TransportError"
       /\ flow[f].net[Len(flow[f].net)].call = "jwks"

\* the session holds a nonce and the ID token carries another one
NonceMismatch(f) ==
    /\ Resolved(f) /\ flow[f].pc = "done"
    /\ flow[f].arg.nonce # None
    /\ flow[f].arg.token.id_token.nonce # flow[f].arg.nonce

\* C11 as stated: every ID token whose nonce is not the one persisted in the
\* session ends in InvalidIDToken (transport failures set aside).
C11_Original ==
    \A f \in Flows :
        (NonceMismatch(f) /\ flow[f].res # "TransportError") =>
            flow[f].res = "InvalidIDToken"

\* C11 amended: an ID token whose nonce is not the one persisted in the session
\* never yields a claims object: the call ends in InvalidIDToken whenever the JWK
\* set could be obtained, and otherwise in the error of the step that obtains it.
C11_NonceMismatchRejected ==
    \A f \in Flows :
        NonceMismatch(f) =>
            /\ flow[f].val = << >>
            /\ flow[f].res = "InvalidIDToken" \/ NoJwkSet(f)

C11_Witness ==
    \E f \in Flows :
        /\ NonceMismatch(f) /\ flow[f].res = "InvalidIDToken"
        /\ flow[f].arg.token.id_token = [alg |-> "RS256", kid |-> "k1", sig_ok |-> TRUE,
                                         iss |-> "iss_disc", nonce |-> "n2"]
        /\ flow[f].arg.nonce = "n1" /\ flow[f].arg.claims_options = None
        /\ "k1" \in server_metadata["jwks"]

JwksCalls(f) == {i \in DOMAIN flow[f].net : flow[f].net[i].call = "jwks"}

\* the key id of the ID token was not in the JWK set found cached at line 225,
\* with an allowed alg and a jwks_uri to refresh the set from
UnknownKid(f) ==
    /\ Resolved(f) /\ flow[f].pc = "done"
    /\ "jwk_set" \in DOMAIN flow[f].loc
    /\ flow[f].loc.jwk_set # << >>
    /\ flow[f].loc.jwk_set[1] # {}
    /\ flow[f].arg.token.id_token.kid \notin flow[f].loc.jwk_set[1]
    /\ flow[f].arg.token.id_token.alg \in flow[f].loc.alg_values
    /\ "jwks_uri" \in DOMAIN server_metadata

\* C12: when the key id of the ID token is not in the cached JWK set,
\* parse_id_token fetches the JWK set anew, once, before it gives its verdict.
C12_Original ==
    \A f \in Flows :
        UnknownKid(f) => Cardinality(JwksCalls(f)) = 1

\* parse_id_token was called on a token response with no id_token in it
NoIdTokenCall(f) == flow[f].op = "parse_id_token" /\ ~flow[f].arg.token.has_id_token

\* the step in which flow f makes that call
NoIdTokenStep(f) ==
    /\ hist'.started = hist.started + 1
    /\ flow'[f].op = "parse_id_token" /\ ~flow'[f].arg.token.has_id_token
    /\ \A g \in Flows \ {f} : flow'[g] = flow[g]

\* C13: parse_id_token on a token response without id_token returns None and
\* raises nothing in every state of the client, puts no call on the wire, and
\* leaves the metadata cache and the discovery url as they were.
C13_NoIdTokenReturnsNone ==
    /\ [](\A f \in Flows :
              NoIdTokenCall(f) =>
                  /\ flow[f].pc = "done" /\ flow[f].res = "ok"
                  /\ flow[f].val = << >> /\ flow[f].net = << >>)
    /\ [][\A f \in Flows :
              NoIdTokenStep(f) =>
                  /\ server_metadata' = server_metadata
                  /\ server_metadata_url' = server_metadata_url
                  /\ hist'.nDisc = hist.nDisc]_vars

C13_Witness ==
    \E f \in Flows :
        /\ NoIdTokenCall(f) /\ flow[f].pc = "done" /\ flow[f].res = "ok"
        /\ server_metadata_url # None
        /\ server_metadata = EmptyDict
        /\ hist.started = 2

\* ------------------------------------------------------------- ordering: claims
LastCall(f) == flow[f].net[Len(flow[f].net)]

\* flow f has read the metadata (lines 70-72, 122-124, 172, 200-205, 225-229):
\* its operation resolves metadata and is past `await self._load_server_metadata()`
HasRead(f) ==
    /\ flow[f].op \in {"create_authorization_url", "authorize_redirect",
                       "fetch_access_token",
                       "authorize_access_token", "userinfo", "parse_id_token",
                       "fetch_jwk_set"}
    /\ flow[f].cont # "none"
    /\ flow[f].pc # "discovery"
    /\ ~(flow[f].res = "TransportError" /\ LastCall(f).call = "discovery")

\* C14: a flow reads endpoint values from the metadata only once resolution has
\* completed: by then no discovery url is pending, and the endpoints it goes to
\* (authorization, token, userinfo, jwks_uri), the issuer and the algorithms it
\* uses are those of the resolved cache.
C14_ResolvedBeforeRead ==
    \A f \in Flows :
        HasRead(f) =>
            /\ server_metadata_url = None
            /\ flow[f].url0 # None =>
                  /\ flow[f].net # << >>
                  /\ flow[f].net[1].call = "discovery"
            /\ \A i \in DOMAIN flow[f].net :
                  LET c == flow[f].net[i]
                  IN  /\ (c.call = "token" /\ cfg.access_token_url = None
                                           /\ cfg.request_token_url = None) =>
                          c.url = Get(server_metadata, "token_endpoint")
                      /\ (c.call = "api" /\ flow[f].op = "userinfo") =>
                          c.url = api_url(server_metadata["userinfo_endpoint"])
                      /\ c.call = "jwks" => c.url = api_url(server_metadata["jwks_uri"])
            /\ (flow[f].op = "create_authorization_url" /\ flow[f].res = "ok"
                    /\ cfg.authorize_url = None) =>
                  flow[f].val[1].url.endpoint = server_metadata["authorization_endpoint"]
            /\ Resolved(f) =>
                  /\ flow[f].loc.alg_values = C10_AllowList
                  /\ (flow[f].arg.claims_options = None /\ "issuer" \in DOMAIN server_metadata) =>
                        flow[f].loc.claims_options = server_metadata["issuer"]

C14_Witness ==
    \E f, g \in Flows :
        /\ f # g /\ HasRead(f) /\ HasRead(g)
        /\ flow[f].url0 # None /\ flow[g].url0 # None
        /\ cfg.server_metadata = StaticEndpoints /\ remote.doc = DocFull
        /\ flow[f].op = "userinfo" /\ flow[f].res = "ok"
        /\ LastCall(f).url = "userinfo_disc"
        /\ flow[g].op = "parse_id_token" /\ flow[g].res = "ok"
        /\ LastCall(g).url = "jwks_disc"

\* the step in which the discovery fetch of flow f fails
DiscoveryFails(f) ==
    /\ flow[f].pc = "discovery"
    /\ flow'[f].pc = "done" /\ flow'[f].res = "TransportError"

\* the operation of flow f resolves metadata and began with the url pending
BeganPending(f) ==
    /\ flow[f].url0 # None
    /\ flow[f].cont # "none" \/ flow[f].pc = "discovery"

\* C15: when the discovery fetch fails the operation ends in the transport error
\* with no second fetch, the metadata cache and the discovery url are as they
\* were (the url still configured, no fetch having succeeded), and every
\* operation that resolves metadata while the url is set begins with the fetch.
C15_DiscoveryFailureKeepsUrl ==
    /\ [][\A f \in Flows :
              DiscoveryFails(f) =>
                  /\ server_metadata' = server_metadata
                  /\ server_metadata_url' = server_metadata_url
                  /\ server_metadata_url' # None
                  /\ flow'[f].net = flow[f].net
                  /\ Cardinality(DiscoveryCalls(f)) = 1
                  /\ hist'.nDisc = hist.nDisc]_vars
    /\ [](\A f \in Flows :
              /\ BeganPending(f) => flow[f].net[1].call = "discovery"
              /\ (hist.nDiscOk = 0 /\ cfg.server_metadata_url # None) =>
                    /\ server_metadata_url = cfg.server_metadata_url
                    /\ \A k \in DOMAIN cfg.server_metadata :
                          k \in DOMAIN server_metadata /\ server_metadata[k] = cfg.server_metadata[k]
                    /\ DOMAIN server_metadata = DOMAIN cfg.server_metadata)

C15_Witness ==
    \E f, g \in Flows :
        /\ f # g
        /\ flow[f].pc = "done" /\ flow[f].res = "TransportError"
        /\ LastCall(f).call = "discovery" /\ Len(flow[f].net) = 1
        /\ flow[g].pc = "discovery" /\ flow[g].url0 # None
        /\ hist.nDisc = 2 /\ hist.nDiscOk = 0
        /\ server_metadata = cfg.server_metadata

\* ------------------------------------------------- authorization url: claims
\* OAuth2 create_authorization_url has ended, past metadata resolution
AuthorizeEnded(f) ==
    /\ ~OAuth1 /\ flow[f].op = "create_authorization_url"
    /\ HasRead(f) /\ flow[f].pc = "done"

\* the authorization endpoint as C16 words it: static config first, else the
\* resolved metadata, else none
C16_Endpoint ==
    IF cfg.authorize_url # None THEN cfg.authorize_url
    ELSE Get(server_metadata, "authorization_endpoint")

\* C16: OAuth2 create_authorization_url takes the authorization endpoint from the
\* static configuration, else from the resolved metadata; it raises the
\* missing-authorize_url error exactly when neither has one, and then returns no
\* url and no state.
C16_MissingAuthorizeUrl ==
    \A f \in Flows :
        AuthorizeEnded(f) =>
            IF C16_Endpoint = None
            THEN /\ flow[f].res = "RuntimeError_authorize_url"
                 /\ flow[f].val = << >>
            ELSE /\ flow[f].res = "ok"
                 /\ flow[f].val[1].url.endpoint = C16_Endpoint
                 /\ flow[f].val[1].state = flow[f].val[1].url.state

C16_Witness ==
    \E f \in Flows :
        /\ AuthorizeEnded(f) /\ flow[f].res = "RuntimeError_authorize_url"
        /\ flow[f].url0 # None /\ remote.doc = DocNoAlgs
        /\ cfg.server_metadata = StaticEndpoints
        /\ Len(flow[f].net) = 1

\* C17: for a parameter named both in the static authorize_params and in the
\* caller's keyword arguments, the authorization url carries the caller's value.
C17_Original ==
    \A f \in Flows :
        (flow[f].op = "create_authorization_url" /\ flow[f].res = "ok") =>
            \A k \in DOMAIN flow[f].arg.kwargs \cap DOMAIN cfg.authorize_params :
                flow[f].val[1].url.params[k] = flow[f].arg.kwargs[k]

\* ------------------------------------------------------------ JWK set: claims
\* _fetch_jwk_set was called by itself and has reached line 225
JwkSetTested(f) == flow[f].op = "fetch_jwk_set" /\ "jwk_set" \in DOMAIN flow[f].loc
\* line 226: a JWK set was found in the cache
FoundCached(f) == flow[f].loc.jwk_set # << >> /\ flow[f].loc.jwk_set[1] # {}

\* the step in which the JWKS fetch of flow f is answered
JwksAnswered(f) ==
    /\ flow[f].pc = "jwks"
    /\ flow'[f].pc = "done" /\ flow'[f].res # "TransportError"

\* C18 as stated: with a JWK set cached and no force the set is returned with no
\* call on the wire, and with no jwks_uri known the fetch fails with no call on
\* the wire.
C18_Original ==
    \A f \in Flows :
        JwkSetTested(f) =>
            /\ (FoundCached(f) /\ ~flow[f].loc.force) =>
                  flow[f].net = << >> /\ flow[f].res = "ok"
            /\ flow[f].res = "RuntimeError_jwks_uri" => flow[f].net = << >>

\* C18 amended: _fetch_jwk_set resolves the metadata first, which costs the one
\* discovery fetch when (and only when) the discovery url was still pending.
\* After that: with a JWK set cached and no force the set is returned and no JWKS
\* call is made; otherwise, with no jwks_uri known, the call fails with no JWKS
\* call, and with one known a single JWKS call goes to it and its answer is
\* returned and replaces the jwks entry of the cache, every other key, the
\* discovery url and the count of discovery fetches staying as they were.
C18_JwkSetFetch ==
    /\ [](\A f \in Flows :
              JwkSetTested(f) =>
                  /\ DiscoveryCalls(f) = (IF flow[f].url0 # None THEN {1} ELSE {})
                  /\ IF FoundCached(f) /\ ~flow[f].loc.force
                     THEN /\ JwksCalls(f) = {}
                          /\ flow[f].pc = "done" /\ flow[f].res = "ok"
                          /\ flow[f].val = flow[f].loc.jwk_set
                     ELSE IF "jwks_uri" \notin DOMAIN server_metadata
                     THEN /\ JwksCalls(f) = {}
                          /\ flow[f].pc = "done" /\ flow[f].res = "RuntimeError_jwks_uri"
                     ELSE /\ JwksCalls(f) = {Len(flow[f].net)}
                          /\ LastCall(f).url = api_url(server_metadata["jwks_uri"])
                          /\ LastCall(f).token = None
                          /\ flow[f].res = "ok" =>
                                /\ flow[f].val = <<remote.jwks>>
                                /\ server_metadata["jwks"] = remote.jwks)
    /\ [][\A f \in Flows :
              JwksAnswered(f) =>
                  /\ server_metadata' = SetItem(server_metadata, "jwks", remote.jwks)
                  /\ server_metadata_url' = server_metadata_url
                  /\ hist'.nDisc = hist.nDisc]_vars

C18_Witness ==
    \E f \in Flows :
        /\ JwkSetTested(f) /\ flow[f].loc.force
        /\ flow[f].loc.jwk_set = <<{"k1"}>>
        /\ flow[f].url0 = None /\ hist.nDisc = 1
        /\ flow[f].pc = "done" /\ flow[f].res = "ok"
        /\ flow[f].val = <<RemoteJwks>>
        /\ server_metadata["jwks"] = RemoteJwks
        /\ server_metadata["revocation_endpoint"] = "revoke_static"
        /\ server_metadata["jwks_uri"] = "jwks_disc"

\* ------------------------------------------------------ token endpoint: claims
\* OAuth2 fetch_access_token is past metadata resolution and neither the static
\* configuration nor the resolved metadata names a token endpoint
NoTokenEndpoint(f) ==
    /\ ~OAuth1 /\ InFetch(f) /\ HasRead(f)
    /\ cfg.access_token_url = None
    /\ "token_endpoint" \notin DOMAIN server_metadata

\* C19: OAuth2 fetch_access_token with no token endpoint configured and none in
\* the resolved metadata ends in a missing-token-endpoint error and starts no
\* token exchange.
C19_Original ==
    \A f \in Flows :
        NoTokenEndpoint(f) =>
            /\ TokenCalls(f) = {}
            /\ flow[f].pc = "done"
            /\ flow[f].res = "MissingTokenEndpoint"

\* ------------------------------------------------------------- OAuth1: claims
RequestTokenCalls(f) == {i \in DOMAIN flow[f].net : flow[f].net[i].call = "request_token"}

\* OAuth1 create_authorization_url, past metadata resolution
OAuth1Authorize(f) == OAuth1 /\ flow[f].op = "create_authorization_url" /\ HasRead(f)
\* OAuth1 fetch_access_token with a request token, past metadata resolution
OAuth1Exchange(f) ==
    OAuth1 /\ InFetch(f) /\ HasRead(f) /\ flow[f].arg.request_token # None

\* C20: OAuth1.  create_authorization_url makes exactly one request-token call,
\* to the configured request-token url with the static request-token params,
\* before anything is returned, and returns the token it was issued; its
\* authorization endpoint is the configured authorize_url, and with none
\* configured it fails even when the metadata has one.  fetch_access_token with a
\* request token makes exactly one exchange, at the configured access_token_url
\* whatever the metadata says, with the static access-token params, and the
\* credential set for it is the request token overlaid with the caller's
\* (verifier) params: each caller param as given, each other request-token field
\* as issued.
C20_OAuth1TwoStep ==
    \A f \in Flows :
        /\ OAuth1Authorize(f) =>
              IF cfg.authorize_url = None
              THEN /\ flow[f].pc = "done" /\ flow[f].res = "RuntimeError_authorize_url"
                   /\ RequestTokenCalls(f) = {}
              ELSE /\ RequestTokenCalls(f) = {Len(flow[f].net)}
                   /\ LastCall(f).url = cfg.request_token_url
                   /\ LastCall(f).params = cfg.request_token_params
                   /\ flow[f].pc \in {"request_token", "done"}
                   /\ flow[f].pc = "request_token" => flow[f].val = << >>
                   /\ (flow[f].pc = "done" /\ flow[f].res # "TransportError") =>
                         /\ flow[f].res = "ok"
                         /\ flow[f].val[1].request_token = "rt1"
                         /\ flow[f].val[1].url.endpoint = cfg.authorize_url
                   /\ flow[f].res = "TransportError" => flow[f].val = << >>
        /\ OAuth1Exchange(f) =>
              LET rt == request_token_dict(flow[f].arg.request_token)
                  verifier == flow[f].arg.params
              IN  /\ Cardinality(TokenCalls(f)) = 1
                  /\ LastCall(f).call = "token"
                  /\ LastCall(f).url = cfg.access_token_url
                  /\ LastCall(f).params = cfg.access_token_params
                  /\ DOMAIN LastCall(f).cred = DOMAIN rt \cup DOMAIN verifier
                  /\ \A k \in DOMAIN verifier : LastCall(f).cred[k] = verifier[k]
                  /\ \A k \in DOMAIN rt \ DOMAIN verifier : LastCall(f).cred[k] = rt[k]

C20_Witness ==
    \E f \in Flows :
        /\ OAuth1Exchange(f) /\ flow[f].op = "fetch_access_token"
        /\ flow[f].arg.request_token = "rt1"
        /\ flow[f].arg.params = [oauth_verifier |-> "v1", oauth_token |-> "rt2"]
        /\ flow[f].pc = "done" /\ flow[f].res = "ok"
        /\ flow[f].url0 # None /\ remote.doc = DocFull
        /\ LastCall(f).url = "token_static"
        /\ LastCall(f).cred = [oauth_token |-> "rt2", oauth_token_secret |-> "rt_secret",
                               oauth_verifier |-> "v1"]

====
